---- MODULE Spec2Model ----
(***************************************************************************)
(* GrassAutomation (src/main.js): the rate limiter, the monitoring cycle,  *)
(* the IP rotation and the stats record, as a state machine.               *)
(*                                                                         *)
(* Time is counted in units of 10 seconds: minInterval (30000 ms) is 3     *)
(* units, the one-minute window (60000 ms) is 6 units.                     *)
(*                                                                         *)
(* JavaScript runs one callback to completion before the next one starts.  *)
(* "running" names the cycle whose synchronous code is executing; a cycle  *)
(* gives it up exactly where the code suspends: the two sleeps of          *)
(* waitForRateLimit and the HTTP call of makeRequest.  Timers, HTTP        *)
(* responses and cron ticks are dispatched only while nothing is running.  *)
(* Synchronous code takes no time at this scale, so a timer fires in the    *)
(* unit it expires in and the cron task fires on its tick.                 *)
(*                                                                         *)
(* LOG_LEVEL is taken at its default "info": info, warn and error messages *)
(* are written, debug messages are not.  With LOG_TO_FILE=true every       *)
(* written message is appended to the log file by fs.appendFileSync, which *)
(* log() does not guard: a failed append is an exception at the call.      *)
(***************************************************************************)
EXTENDS Integers, Sequences, FiniteSets, TLC

\* ---------------------------------------------------------------- bounds
MaxTime == 16        \* the clock stops advancing here
MaxCycles == 2       \* cycles that can be in progress at once
MaxIps == 2          \* longest active-IP list the service returns

\* ------------------------------------------------------ program constants
minInterval == 3         \* rateLimiter.minInterval, 30000 ms
requestsPerMinute == 3   \* rateLimiter.requestsPerMinute
Window == 6              \* the literal 60000 ms of waitForRateLimit
intervalMinutes == 5     \* parseInt(CHECK_INTERVAL_MINUTES) || 5
CronPeriod == intervalMinutes * 6
MsPerHour == 3600000     \* divisor of deviceStatus.totalUptime
Timeout == 3             \* parseInt(CLOUDFLARE_TIMEOUT) || 30000 ms

Cycles == 1..MaxCycles

\* IP addresses; NoAddr is an entry without an ipAddress field (undefined).
NoAddr == ""
Addrs == {"A", "B"}
RECURSIVE SeqsUpTo(_, _)
SeqsUpTo(S, n) ==
    IF n = 0 THEN {<<>>}
    ELSE LET shorter == SeqsUpTo(S, n - 1)
         IN  shorter \cup {Append(q, x) : q \in {r \in shorter : Len(r) = n - 1}, x \in S}
IpLists == SeqsUpTo(Addrs \cup {NoAddr}, MaxIps)

\* Values the remote service reports.
Uptimes == {0, 7200000}
PointDeltas == {0, 50}
ProfilePoints == {0, 500}

VARIABLES
    now,          \* Date.now(), in units of 10 s
    phase,        \* "constructed", "starting" (start() awaits its cycle), "running", "exited"
    nextTick,     \* <<t>>: the next cron tick; <<>>: no tick yet, its phase is open
    running,      \* {c} while cycle c executes synchronous code, else {}
    rateLimiter,  \* this.rateLimiter
    stats,        \* this.stats
    statsFile,    \* stats.json: <<>> when absent, else <<record>>
    ipAddress,    \* this.config.ipAddress
    logToFile,    \* process.env.LOG_TO_FILE === 'true'
    diskFails,    \* fs.writeFileSync of stats.json can fail in this run
    service,      \* what the remote service sends in this run
    config,       \* this.config: authToken and deviceId ("" when unset)
    attempts,     \* calls of main() made by startWithRetry
    pc,           \* per cycle: where monitorAndMaintain stands
    op,           \* per cycle: the API call makeRequest is serving
    ctx,          \* per cycle: who called getActiveIps / rotateIp
    now0,         \* per cycle: the local "now" of waitForRateLimit
    wake,         \* per cycle: expiry of the pending setTimeout or HTTP timeout
    val,          \* per cycle: the value or error just returned
    trace,        \* per cycle: the steps of the cycle entered so far
    eqAtStart,    \* per cycle: the stats equality held when checkIn began
    recorded      \* the values written to rateLimiter.lastRequest within the last minute

vars == <<now, phase, nextTick, running, rateLimiter, stats, statsFile, ipAddress,
          logToFile, diskFails, service, config, attempts, pc, op, ctx, now0, wake, val, trace, eqAtStart, recorded>>

\* src/main.js:81-89, the record loadStats builds when stats.json is absent.
\* lastCheckin is <<>> for null and <<t>> for a timestamp.
DefaultStats ==
    [totalCheckins |-> 0, successfulCheckins |-> 0, failedCheckins |-> 0,
     lastCheckin |-> <<>>, totalPoints |-> 0, uptimeHours |-> 0, ipRotations |-> 0]

NoVal == [kind |-> "none"]
Err(e) == [kind |-> "err", e |-> e]

\* The state after the constructor (8-51), stats.json being absent.
Constructed ==
    /\ now = minInterval
    /\ phase = "constructed"
    /\ attempts = 1
    /\ running = {}
    /\ rateLimiter = [lastRequest |-> 0, requestCount |-> 0, minuteStart |-> now]
    /\ stats = DefaultStats
    /\ statsFile = <<>>
    /\ ipAddress \in Addrs
    /\ pc = [c \in Cycles |-> "idle"]
    /\ op = [c \in Cycles |-> "none"]
    /\ ctx = [c \in Cycles |-> "none"]
    /\ now0 = [c \in Cycles |-> 0]
    /\ wake = [c \in Cycles |-> 0]
    /\ val = [c \in Cycles |-> NoVal]
    /\ trace = [c \in Cycles |-> <<>>]
    /\ eqAtStart = [c \in Cycles |-> FALSE]
    /\ recorded = <<>>

\* ------------------------------------------------------------- log (59-73)
\* Outcomes of one written log call: TRUE it returned, FALSE appendFileSync threw.
LogOutcomes == IF logToFile THEN {TRUE, FALSE} ELSE {TRUE}

\* --------------------------------------------------- saveStats (105-111)
\* "written": writeFileSync succeeded; "dropped": it threw and the error was
\* logged; "threw": it threw and the log call in the catch block threw too.
SaveOutcomes ==
    {"written"} \cup (IF diskFails THEN {"dropped"} ELSE {})
                \cup (IF diskFails /\ logToFile THEN {"threw"} ELSE {})
SavedFile(file, s, o) == IF o = "written" THEN <<s>> ELSE file

\* ------------------------------------------- waitForRateLimit (114-141)
\* Lines 118-121: reset the window when more than a minute has passed.
WindowReset(rl, n) ==
    IF n - rl.minuteStart > Window
    THEN [rl EXCEPT !.requestCount = 0, !.minuteStart = n]
    ELSE rl

\* Line 125: the wait of the per-minute check.
QuotaWait(rl, n) == Window - (n - rl.minuteStart)

\* Lines 133-135: the wait of the minimum-interval check (a wait when > 0).
IntervalWait(rl, n) == minInterval - (n - rl.lastRequest)

\* Lines 139-140.
RecordRequest(rl, t) == [rl EXCEPT !.lastRequest = t, !.requestCount = @ + 1]

\* The recorded requests that are less than a minute old at time t.
RECURSIVE Recent(_, _)
Recent(q, t) ==
    IF q = <<>> THEN <<>>
    ELSE IF t - Head(q) < Window THEN q
    ELSE Recent(Tail(q), t)

\* The label a call of makeRequest returns (or throws) to.
RetLabel(o) ==
    CASE o = "status" -> "status_ret"
      [] o = "ips" -> "ips_ret"
      [] o = "checkin" -> "checkin_ret"
      [] OTHER -> "profile_ret"

\* Lines 132-140 for cycle c, with rl the limiter state reached so far and n the
\* local "now": sleep for the remainder, or record the request and go on to
\* the HTTP call of makeRequest (147-162), which suspends the cycle.
IntervalCheck(c, rl, n) ==
    IF n - rl.lastRequest < minInterval
    THEN /\ rateLimiter' = rl
         /\ wake' = [wake EXCEPT ![c] = now + IntervalWait(rl, n)]
         /\ pc' = [pc EXCEPT ![c] = "intervalSleep"]
         /\ recorded' = recorded
    ELSE /\ rateLimiter' = RecordRequest(rl, now)
         /\ wake' = [wake EXCEPT ![c] = now + Timeout]
         /\ pc' = [pc EXCEPT ![c] = "http"]
         /\ recorded' = Append(recorded, now)

\* waitForRateLimit up to its first suspension (115-137).
AcquireEnter(c) ==
    /\ running = {c} /\ pc[c] = "acquire"
    /\ LET rl == WindowReset(rateLimiter, now) IN
       IF rl.requestCount >= requestsPerMinute
       THEN \E ok \in LogOutcomes :
              /\ rateLimiter' = rl
              /\ recorded' = recorded
              /\ IF ok
                 THEN /\ wake' = [wake EXCEPT ![c] = now + QuotaWait(rl, now)]
                      /\ now0' = [now0 EXCEPT ![c] = now]
                      /\ pc' = [pc EXCEPT ![c] = "quotaSleep"]
                      /\ running' = {}
                      /\ val' = val
                 ELSE /\ val' = [val EXCEPT ![c] = Err("log")]
                      /\ pc' = [pc EXCEPT ![c] = RetLabel(op[c])]
                      /\ UNCHANGED <<wake, now0, running>>
       ELSE /\ now0' = now0
            /\ IntervalCheck(c, rl, now)
            /\ running' = {}
            /\ val' = val
    /\ UNCHANGED <<now, phase, nextTick, stats, statsFile, ipAddress, logToFile, diskFails, service, config, attempts,
                   op, ctx, trace, eqAtStart>>

\* The timer of line 127 fires: lines 128-137.
WakeQuota(c) ==
    /\ running = {} /\ phase \in {"starting", "running"}
    /\ pc[c] = "quotaSleep" /\ now >= wake[c]
    /\ IntervalCheck(c, [rateLimiter EXCEPT !.requestCount = 0, !.minuteStart = now], now0[c])
    /\ now0' = [now0 EXCEPT ![c] = 0]
    /\ UNCHANGED <<now, phase, nextTick, running, stats, statsFile, ipAddress, logToFile, diskFails, service, config, attempts,
                   op, ctx, val, trace, eqAtStart>>

\* The timer of line 136 fires: lines 139-140, then the HTTP call.
WakeInterval(c) ==
    /\ running = {} /\ phase \in {"starting", "running"}
    /\ pc[c] = "intervalSleep" /\ now >= wake[c]
    /\ rateLimiter' = RecordRequest(rateLimiter, now)
    /\ recorded' = Append(recorded, now)
    /\ wake' = [wake EXCEPT ![c] = now + Timeout]
    /\ pc' = [pc EXCEPT ![c] = "http"]
    /\ UNCHANGED <<now, phase, nextTick, running, stats, statsFile, ipAddress, logToFile, diskFails, service, config, attempts,
                   op, ctx, now0, val, trace, eqAtStart>>

\* ------------------------------------------------- makeRequest (144-168)
\* Bodies without the expected content: "malformed" is a body without a
\* usable shape (response undefined), "nodata" a body without result.data.
Faults == {"malformed", "nodata"}

\* What the service can answer to each call.
Responses(o) ==
    CASE o = "status" ->
           {[kind |-> k] : k \in service.faults}
           \cup {[kind |-> "device", isConnected |-> b, totalUptime |-> u] :
                    b \in BOOLEAN, u \in service.uptimes}
      [] o = "ips" ->
           {[kind |-> k] : k \in service.faults}
           \cup {[kind |-> "ips", list |-> l] : l \in service.lists}
      [] o = "checkin" ->
           {[kind |-> k] : k \in service.faults \cap {"malformed"}}
           \cup {[kind |-> "checkin", points |-> p] : p \in service.deltas}
      [] OTHER ->
           {[kind |-> k] : k \in service.faults}
           \cup {[kind |-> "profile", totalPoints |-> t] :
                    t \in {<<>>} \cup {<<p>> : p \in service.totals}}

\* Rejections of the transport: "ratelimit" is an error the test of line 276
\* accepts (status 429 or a message containing 'rate limit'), "transport" any
\* other.
Failures == {"transport", "ratelimit"}

\* Cycle c resumes in the function that called makeRequest for o: the HTTP
\* call of line 162 completes (at the latest when its timeout expires), or
\* waitForRateLimit threw.
Returning(c, o) ==
    /\ op[c] = o
    /\ \/ pc[c] = "http" /\ running = {} /\ phase \in {"starting", "running"}
       \/ pc[c] = RetLabel(o) /\ running = {c}

\* Lines 163-167: makeRequest logs a rejection and throws it again; when that
\* log call throws, its error takes the place of the rejection.
Rethrown ==
    {Err(e) : e \in service.failures}
    \cup (IF logToFile /\ service.failures # {} THEN {Err("log")} ELSE {})

\* What makeRequest hands to its caller then.
Outcomes(c) ==
    IF pc[c] = "http"
    THEN Responses(op[c]) \cup Rethrown
    ELSE {val[c]}

\* How a cycle ended: "completed" (349 reached), "caught" (the catch block of
\* 351-353 returned) or "rejected" (its log call threw); the profile the
\* cycle used at 344 and the outcome of the saveStats of 348.
Ended(how, profile, save) == [kind |-> "end", how |-> how, profile |-> profile, save |-> save]

\* Where a continuation of the cycle leaves it: at its next call of
\* makeRequest, for o on behalf of x, or at the end of monitorAndMaintain.
Goto(o, x) == [kind |-> "call", op |-> o, ctx |-> x, end |-> NoVal]
Stop(end) == [kind |-> "end", op |-> "none", ctx |-> "none", end |-> end]

\* Lines 351-353: an exception reached the cycle boundary; logged tells
\* whether the log call of line 352 returned.
Caught(logged) == Stop(Ended(IF logged THEN "caught" ELSE "rejected", NoVal, "none"))

\* What one continuation does to the object: the stats, stats.json, the
\* current address, whether the stats were balanced when checkIn began, the
\* steps of the cycle it entered and where it leaves the cycle.
Effect(s, file, ip, eq, steps, next) ==
    [stats |-> s, file |-> file, ip |-> ip, eq |-> eq, steps |-> steps, next |-> next]

Apply(c, e) ==
    /\ stats' = e.stats
    /\ statsFile' = e.file
    /\ ipAddress' = e.ip
    /\ eqAtStart' = [eqAtStart EXCEPT ![c] = e.eq]
    /\ trace' = [trace EXCEPT ![c] = @ \o e.steps]
    /\ wake' = [wake EXCEPT ![c] = 0]
    /\ running' = {c}
    /\ op' = [op EXCEPT ![c] = IF e.next.kind = "call" THEN e.next.op ELSE @]
    /\ ctx' = [ctx EXCEPT ![c] = IF e.next.kind = "call" THEN e.next.ctx ELSE @]
    /\ pc' = [pc EXCEPT ![c] = IF e.next.kind = "call" THEN "acquire" ELSE "m_end"]
    /\ val' = [val EXCEPT ![c] = e.next.end]
    /\ UNCHANGED <<rateLimiter, logToFile, diskFails, service, config, attempts, now0, recorded>>

\* ---------------------- getUserProfile, getDeviceStatus, getActiveIps
\* The three have one shape (171-180, 182-200, 202-218): log in the try block,
\* return response.result?.data; in the catch block log and return null.
\* out is what makeRequest handed over, kind the shape of a usable body, l1
\* and l2 whether the log calls of the try and of the catch block returned.
\* thrown: the log call of the catch block threw, the exception leaves the
\* function.  this.availableIps (209) is written by getActiveIps and read
\* nowhere but in a debug message: it is not part of the state.
Fetched(out, kind, l1, l2) ==
    LET inTry == out.kind # "err" /\ out.kind # "malformed" /\ l1
    IN  [thrown |-> ~inTry /\ ~l2,
         value |-> IF inTry /\ out.kind = kind THEN out ELSE NoVal]

getDeviceStatus(out, l1, l2) == Fetched(out, "device", l1, l2)
getActiveIps(out, l1, l2) == Fetched(out, "ips", l1, l2)
getUserProfile(out, l1, l2) == Fetched(out, "profile", l1, l2)

\* -------------------------------------------- monitorAndMaintain (309-354)
\* Lines 311-314: the cycle begins and calls getDeviceStatus; l1 and l2 tell
\* whether the log calls of 311 and 352 returned.
BeginCycle(c, l1, l2) ==
    Apply(c, Effect(stats, statsFile, ipAddress, eqAtStart[c],
                    IF l1 THEN <<"FETCH_STATUS">> ELSE <<>>,
                    IF l1 THEN Goto("status", "monitor") ELSE Caught(l2)))

\* Line 324.
UptimeHours(ms) == ms \div MsPerHour

\* Lines 322-325.
WithUptime(s, d) ==
    IF d.kind = "device" /\ d.totalUptime # 0
    THEN [s EXCEPT !.uptimeHours = UptimeHours(d.totalUptime)]
    ELSE s

\* getDeviceStatus returns r; lines 316-329: the cycle uses the status and
\* calls getActiveIps.  l3 and l4: the log calls of 318 and 352 returned.
afterStatus(r, s, file, ip, eq, l3, l4) ==
    IF r.thrown \/ (r.value.kind = "device" /\ ~r.value.isConnected /\ ~l3)
    THEN Effect(s, file, ip, eq, <<>>, Caught(l4))
    ELSE Effect(WithUptime(s, r.value), file, ip, eq, <<"MAINTAIN_IP">>, Goto("ips", "monitor"))

StatusDone(c) ==
    /\ Returning(c, "status")
    /\ \E e \in {afterStatus(r, stats, statsFile, ipAddress, eqAtStart[c], l3, l4) :
                   r \in {getDeviceStatus(out, l1, l2) :
                            out \in Outcomes(c), l1 \in LogOutcomes, l2 \in LogOutcomes},
                   l3 \in LogOutcomes, l4 \in LogOutcomes} :
         Apply(c, e)
    /\ UNCHANGED <<now, phase, nextTick>>

\* Lines 332-335: hoursSinceLastRotation >= 12 at time t.  One hour is 360
\* units; new Date(null).getTime() is 0, the epoch.
RotateAfterHours == 12
FirstRunHours == 24
UnitsPerHour == 360
\* The test of line 335 with > in place of >=.
StrictlyDue(s, t) ==
    IF s.ipRotations > 0
    THEN IF s.lastCheckin = <<>>
         THEN TRUE
         ELSE t - s.lastCheckin[1] > RotateAfterHours * UnitsPerHour
    ELSE FirstRunHours > RotateAfterHours

RotationDue(s, t) ==
    IF s.ipRotations > 0
    THEN IF s.lastCheckin = <<>>
         THEN TRUE
         ELSE t - s.lastCheckin[1] >= RotateAfterHours * UnitsPerHour
    ELSE FirstRunHours >= RotateAfterHours

\* ------------------------------------------------------ checkIn (240-284)
StatsBalanced(s) == s.totalCheckins = s.successfulCheckins + s.failedCheckins

\* Lines 242-258: count the attempt, build the token, send the request.
beginCheckIn(s, file, ip) ==
    Effect([s EXCEPT !.totalCheckins = @ + 1], file, ip, StatsBalanced(s),
           <<"CHECK_IN">>, Goto("checkin", "monitor"))

\* The getActiveIps of line 329 returned r at time t; the cycle rotates when
\* due (332-337, rotateIp begins with its own getActiveIps) and checks in
\* otherwise (340).  l3: the log call of 352 returned.
afterActiveIps(r, s, file, ip, eq, t, l3) ==
    IF r.thrown THEN Effect(s, file, ip, eq, <<>>, Caught(l3))
    ELSE IF RotationDue(s, t) THEN Effect(s, file, ip, eq, <<>>, Goto("ips", "rot_m"))
    ELSE beginCheckIn(s, file, ip)

MaintainIps(c) ==
    /\ Returning(c, "ips") /\ ctx[c] = "monitor"
    /\ \E e \in {afterActiveIps(r, stats, statsFile, ipAddress, eqAtStart[c], now, l3) :
                   r \in {getActiveIps(out, l1, l2) :
                            out \in Outcomes(c), l1 \in LogOutcomes, l2 \in LogOutcomes},
                   l3 \in LogOutcomes} :
         Apply(c, e)
    /\ UNCHANGED <<now, phase, nextTick>>

\* ----------------------------------------------------- rotateIp (220-238)
\* Line 225: the ipAddress of the first entry that differs from cur, NoAddr
\* when there is none (or when that entry has no ipAddress).
RECURSIVE FindOther(_, _)
FindOther(list, cur) ==
    IF list = <<>> THEN NoAddr
    ELSE IF Head(list) # cur THEN Head(list)
    ELSE FindOther(Tail(list), cur)

\* An address choice that takes the first entry of the list, whatever the
\* current address.
FirstIp(list, cur) == IF Len(list) > 1 THEN Head(list) ELSE NoAddr

\* Lines 223-226: the address rotateIp switches to, NoAddr for none.
NewIp(list, cur) == IF Len(list) > 1 THEN FindOther(list, cur) ELSE NoAddr

\* rotateIp once its getActiveIps gave r (returned a value, or threw), with
\* cur the current address and s the stats; l1 and l2 tell whether the log
\* calls of 229 and 235 returned.  thrown: the exception leaves rotateIp.
rotateIp(r, cur, s, l1, l2) ==
    LET newIp == IF ~r.thrown /\ r.value.kind = "ips"
                 THEN NewIp(r.value.list, cur)
                 ELSE NoAddr
        rotated == newIp # NoAddr
        caught == r.thrown \/ (rotated /\ ~l1)
    IN  [thrown |-> caught /\ ~l2,
         rotated |-> rotated,
         ip |-> IF rotated THEN newIp ELSE cur,
         stats |-> IF rotated THEN [s EXCEPT !.ipRotations = @ + 1] ELSE s]

\* What the rotateIp of cycle c can give: rotateIp on every outcome of its
\* getActiveIps.
Rotations(c) ==
    {rotateIp(r, ipAddress, stats, l1, l2) :
       r \in {getActiveIps(out, g1, g2) :
                out \in Outcomes(c), g1 \in LogOutcomes, g2 \in LogOutcomes},
       l1 \in LogOutcomes, l2 \in LogOutcomes}

\* The rotation of line 336 gave rot; the cycle checks in (340).  l3: the log
\* call of 352 returned.
afterRotation(rot, file, eq, l3) ==
    IF rot.thrown
    THEN Effect(rot.stats, file, rot.ip, eq, <<>>, Caught(l3))
    ELSE beginCheckIn(rot.stats, file, rot.ip)

RotateThenCheckIn(c) ==
    /\ Returning(c, "ips") /\ ctx[c] = "rot_m"
    /\ \E e \in {afterRotation(rot, statsFile, eqAtStart[c], l3) :
                   rot \in Rotations(c), l3 \in LogOutcomes} :
         Apply(c, e)
    /\ UNCHANGED <<now, phase, nextTick>>

\* The rotation of line 278, inside the catch block of checkIn, gave rot:
\* lines 281-282, then the cycle calls getUserProfile (343).  l3 and l4: the
\* log calls of 281 and 352 returned.
afterFailedCheckIn(rot, file, eq, l3, l4) ==
    Effect(rot.stats, file, rot.ip, eq,
           IF rot.thrown \/ ~l3 THEN <<>> ELSE <<"SYNC_PROFILE">>,
           IF rot.thrown \/ ~l3 THEN Caught(l4) ELSE Goto("profile", "monitor"))

RotateAfterFailure(c) ==
    /\ Returning(c, "ips") /\ ctx[c] = "rot_c"
    /\ \E e \in {afterFailedCheckIn(rot, statsFile, eqAtStart[c], l3, l4) :
                   rot \in Rotations(c), l3 \in LogOutcomes, l4 \in LogOutcomes} :
         Apply(c, e)
    /\ UNCHANGED <<now, phase, nextTick>>

\* Lines 260-267: the stats after a check-in whose request returned v at time t.
CheckedIn(s, v, t) ==
    [s EXCEPT !.successfulCheckins = @ + 1,
              !.lastCheckin = <<t>>,
              !.totalPoints = IF v.kind = "checkin" THEN @ + v.points ELSE @]

\* Lines 260-261 alone: the log call of line 262 threw.
CheckedInUntilLog(s, t) ==
    [s EXCEPT !.successfulCheckins = @ + 1, !.lastCheckin = <<t>>]

\* The try block of checkIn from line 260 on, for the outcome out of the
\* request at time t: logged tells whether the log call of 262 returned, o
\* the outcome of the saveStats of 269.  caught: the catch block is entered,
\* with error.
checkInTry(out, s, file, t, logged, o) ==
    IF out.kind = "err"
    THEN [caught |-> TRUE, error |-> out, stats |-> s, file |-> file]
    ELSE IF ~logged
    THEN [caught |-> TRUE, error |-> Err("log"), stats |-> CheckedInUntilLog(s, t), file |-> file]
    ELSE [caught |-> o = "threw", error |-> Err("log"), stats |-> CheckedIn(s, out, t),
          file |-> SavedFile(file, CheckedIn(s, out, t), o)]

\* Line 276: the error asks for a rotation.
IsRateLimit(v) == v.kind = "err" /\ v.e = "ratelimit"

\* The catch block of checkIn for what the try block left: lines 272-279
\* (rotateIp is called) or 272-282 (checkIn returns null).  o2 is the outcome
\* of the saveStats of 273, l2 and l3 tell whether the log calls of 277 or
\* 281 and of 352 returned.
checkInCatch(try, ip, eq, o2, l2, l3) ==
    LET failed == [try.stats EXCEPT !.failedCheckins = @ + 1]
        file == SavedFile(try.file, failed, o2)
    IN  IF o2 = "threw" \/ ~l2 THEN Effect(failed, file, ip, eq, <<>>, Caught(l3))
        ELSE IF IsRateLimit(try.error) THEN Effect(failed, file, ip, eq, <<>>, Goto("ips", "rot_c"))
        ELSE Effect(failed, file, ip, eq, <<"SYNC_PROFILE">>, Goto("profile", "monitor"))

\* checkIn from what its try block left to its return, and the call of
\* getUserProfile (343).
checkIn(try, ip, eq, o2, l2, l3) ==
    IF try.caught
    THEN checkInCatch(try, ip, eq, o2, l2, l3)
    ELSE Effect(try.stats, try.file, ip, eq, <<"SYNC_PROFILE">>, Goto("profile", "monitor"))

CheckInDone(c) ==
    /\ Returning(c, "checkin")
    /\ \E e \in {checkIn(try, ipAddress, eqAtStart[c], o2, l2, l3) :
                   try \in {checkInTry(out, stats, statsFile, now, l1, o1) :
                              out \in Outcomes(c), l1 \in LogOutcomes, o1 \in SaveOutcomes},
                   o2 \in SaveOutcomes, l2 \in LogOutcomes, l3 \in LogOutcomes} :
         Apply(c, e)
    /\ UNCHANGED <<now, phase, nextTick>>

\* Lines 344-346: the point total of the profile overwrites totalPoints when
\* userProfile?.totalPoints is truthy.
SyncPoints(s, profile) ==
    IF profile.kind = "profile" /\ profile.totalPoints # <<>> /\ profile.totalPoints # <<0>>
    THEN [s EXCEPT !.totalPoints = profile.totalPoints[1]]
    ELSE s

\* getUserProfile returned r; lines 344-349: sync the points, persist,
\* report.  o is the outcome of the saveStats of 348, l3 and l4 tell whether
\* the log calls of 349 and 352 returned.
afterProfile(r, s, file, ip, eq, o, l3, l4) ==
    IF r.thrown
    THEN Effect(s, file, ip, eq, <<>>, Caught(l4))
    ELSE Effect(SyncPoints(s, r.value), SavedFile(file, SyncPoints(s, r.value), o), ip, eq,
                <<"PERSIST">>,
                Stop(Ended(IF o # "threw" /\ l3 THEN "completed"
                           ELSE IF l4 THEN "caught" ELSE "rejected",
                           r.value, o)))

ProfileDone(c) ==
    /\ Returning(c, "profile")
    /\ \E e \in {afterProfile(r, stats, statsFile, ipAddress, eqAtStart[c], o, l3, l4) :
                   r \in {getUserProfile(out, l1, l2) :
                            out \in Outcomes(c), l1 \in LogOutcomes, l2 \in LogOutcomes},
                   o \in SaveOutcomes, l3 \in LogOutcomes, l4 \in LogOutcomes} :
         Apply(c, e)
    /\ UNCHANGED <<now, phase, nextTick>>

\* monitorAndMaintain is over.  start() (371) awaits the cycle it began: a
\* rejection there reaches the catch block of main (400-403), which exits.
CycleEnd(c) ==
    /\ running = {c} /\ pc[c] = "m_end"
    /\ phase' = IF phase = "starting" /\ c = 1
                THEN (IF val[c].how = "rejected" THEN "exited" ELSE "running")
                ELSE phase
    /\ pc' = [pc EXCEPT ![c] = "idle"]
    /\ op' = [op EXCEPT ![c] = "none"]
    /\ ctx' = [ctx EXCEPT ![c] = "none"]
    /\ val' = [val EXCEPT ![c] = NoVal]
    /\ trace' = [trace EXCEPT ![c] = <<>>]
    /\ eqAtStart' = [eqAtStart EXCEPT ![c] = FALSE]
    /\ running' = {}
    /\ UNCHANGED <<now, nextTick, rateLimiter, stats, statsFile, ipAddress, logToFile, diskFails, service, config, attempts,
                   now0, wake, recorded>>

\* -------------------------------------------------------- start (360-377)
\* Lines 361-371: log, register the cron task, run a cycle at once.  start()
\* is called right after the constructor (386-387).
Start ==
    /\ phase = "constructed" /\ running = {}
    /\ UNCHANGED <<now, nextTick>>
    /\ \E l0 \in LogOutcomes, l1 \in LogOutcomes, l2 \in LogOutcomes :
         IF l0
         THEN /\ phase' = "starting"
              /\ BeginCycle(1, l1, l2)
         ELSE /\ phase' = "exited"
              /\ UNCHANGED <<rateLimiter, stats, statsFile, ipAddress, logToFile, diskFails, service, config, attempts,
                             pc, op, ctx, now0, wake, val, trace, eqAtStart, running,
                             recorded>>

IdleCycles == {c \in Cycles : pc[c] = "idle"}
LowestIdle == CHOOSE c \in IdleCycles : \A d \in IdleCycles : c <= d

\* Lines 366-368: the cron task fires and calls monitorAndMaintain, whatever
\* the state of earlier cycles.  Only MaxCycles cycles are followed: a tick
\* that finds them all in progress is not followed.
CronTick ==
    /\ phase \in {"starting", "running"} /\ running = {}
    /\ nextTick \in {<<>>, <<now>>}
    /\ nextTick' = <<now + CronPeriod>>
    /\ IF IdleCycles # {}
       THEN \E l1 \in LogOutcomes, l2 \in LogOutcomes : BeginCycle(LowestIdle, l1, l2)
       ELSE UNCHANGED <<rateLimiter, stats, statsFile, ipAddress, logToFile, diskFails, service, config, attempts,
                        pc, op, ctx, now0, wake, val, trace, eqAtStart, running, recorded>>
    /\ UNCHANGED <<now, phase>>

\* The time at which start() registered the cron task: the clock of Init.
StartTime == minInterval
Suspended == {"quotaSleep", "intervalSleep", "http"}

\* Ten seconds pass while no callback runs: no timer or timeout is due, and
\* neither is the cron tick (the first one comes within one period).
TickUntil(horizon) ==
    /\ phase \in {"starting", "running"} /\ running = {}
    /\ now < horizon
    /\ \A c \in Cycles : pc[c] \in Suspended => now < wake[c]
    /\ nextTick # <<now>>
    /\ nextTick = <<>> => now + 1 < StartTime + CronPeriod
    /\ now' = now + 1
    /\ recorded' = Recent(recorded, now + 1)
    /\ UNCHANGED <<phase, nextTick, running, rateLimiter, stats, statsFile, ipAddress,
                   logToFile, diskFails, service, config, attempts, pc, op, ctx, now0, wake, val, trace, eqAtStart>>

Tick == TickUntil(MaxTime)

Next ==
    \/ Start
    \/ CronTick
    \/ Tick
    \/ \E c \in Cycles :
         \/ AcquireEnter(c)
         \/ WakeQuota(c)
         \/ WakeInterval(c)
         \/ StatusDone(c)
         \/ MaintainIps(c)
         \/ RotateThenCheckIn(c)
         \/ RotateAfterFailure(c)
         \/ CheckInDone(c)
         \/ ProfileDone(c)
         \/ CycleEnd(c)

\* ------------------------------- startWithRetry, main, constructor (8-56, 384-423)
maxRetries == 3          \* startWithRetry(maxRetries = 3, ...)

\* Content of stats.json that JSON.parse rejects.
Corrupt == [kind |-> "corrupt"]

\* A record an earlier run left in stats.json: one rotation made, the last
\* check-in at time t.
Stored(t) ==
    [totalCheckins |-> 1, successfulCheckins |-> 1, failedCheckins |-> 0,
     lastCheckin |-> <<t>>, totalPoints |-> 0, uptimeHours |-> 0, ipRotations |-> 1]

\* The last check-in is 12 hours old two minimum intervals after the start.
OldRecord == Stored(StartTime + 2 * minInterval - RotateAfterHours * UnitsPerHour)
\* The last check-in is 30 seconds old at the start.
RecentRecord == Stored(0)
StatsFiles == {<<>>, <<Corrupt>>, <<OldRecord>>, <<RecentRecord>>}

\* The process as startWithRetry begins (407): no call of main() yet, this.stats
\* not assigned.  The fields the constructor assigns before it calls
\* initialize() (9-48) are shown with the values it gives them.
Booted ==
    /\ now = minInterval
    /\ phase = "boot"
    /\ attempts = 0
    /\ running = {}
    /\ rateLimiter = [lastRequest |-> 0, requestCount |-> 0, minuteStart |-> now]
    /\ stats = NoVal
    /\ statsFile \in StatsFiles
    /\ ipAddress \in Addrs
    /\ pc = [c \in Cycles |-> "idle"]
    /\ op = [c \in Cycles |-> "none"]
    /\ ctx = [c \in Cycles |-> "none"]
    /\ now0 = [c \in Cycles |-> 0]
    /\ wake = [c \in Cycles |-> 0]
    /\ val = [c \in Cycles |-> NoVal]
    /\ trace = [c \in Cycles |-> <<>>]
    /\ eqAtStart = [c \in Cycles |-> FALSE]
    /\ recorded = <<>>

\* Lines 408-410 and 384-386: startWithRetry calls main(), which calls the
\* constructor.  main() catches every exception itself and ends the process
\* (400-403), so it never rejects: the catch block of startWithRetry (412-421)
\* is not reached and the loop body runs once.
Main ==
    /\ phase = "boot" /\ attempts < maxRetries
    /\ attempts' = attempts + 1
    /\ phase' = "new"
    /\ UNCHANGED <<now, nextTick, running, rateLimiter, stats, statsFile, ipAddress,
                   logToFile, diskFails, service, config, pc, op, ctx, now0, wake, val,
                   trace, eqAtStart, recorded>>

\* Lines 50-54: initialize() logs; an exception leaves the constructor and
\* reaches the catch block of main, which calls process.exit(1) (400-403).
Initialize ==
    /\ phase = "new"
    /\ \E logged \in LogOutcomes : phase' = IF logged THEN "loading" ELSE "exited"
    /\ UNCHANGED <<now, nextTick, running, rateLimiter, stats, statsFile, ipAddress,
                   logToFile, diskFails, service, config, attempts, pc, op, ctx, now0,
                   wake, val, trace, eqAtStart, recorded>>

\* loadStats (76-103) for the content file of stats.json; logged tells whether
\* the log call of its catch block (92) returned.  raised: the exception
\* leaves loadStats.
loadStats(file, logged) ==
    IF file = <<>> THEN [raised |-> FALSE, stats |-> DefaultStats]
    ELSE IF file = <<Corrupt>>
    THEN [raised |-> ~logged, stats |-> IF logged THEN DefaultStats ELSE NoVal]
    ELSE [raised |-> FALSE, stats |-> file[1]]

\* Line 55: the constructor loads the stats.
LoadStats ==
    /\ phase = "loading"
    /\ \E logged \in LogOutcomes :
         LET r == loadStats(statsFile, logged)
         IN  /\ stats' = r.stats
             /\ phase' = IF r.raised THEN "exited" ELSE "constructed"
    /\ UNCHANGED <<now, nextTick, running, rateLimiter, statsFile, ipAddress,
                   logToFile, diskFails, service, config, attempts, pc, op, ctx, now0,
                   wake, val, trace, eqAtStart, recorded>>

NextStartup == Main \/ Initialize \/ LoadStats \/ Next

\* ------------------------------------------------------- specifications
\* The configuration the constructor reads from the environment (10-11): the
\* token and the device id, "" when the variable is unset or empty.
Configs == [authToken : {"", "token"}, deviceId : {"", "device"}]
Configured == [authToken |-> "token", deviceId |-> "device"]

\* A run is set in an environment: the cron phase (<<>>: the first tick may
\* come at any time of the first period), LOG_TO_FILE, whether the disk can
\* refuse a write of stats.json, and what the service sends.  The
\* configuration is complete.
Environment(ticks, logs, disks, svc) ==
    /\ config = Configured
    /\ nextTick \in ticks
    /\ logToFile \in logs
    /\ diskFails \in disks
    /\ service = svc

\* The cron phase that puts the first tick at the end of the run.
LateTick == <<MaxTime>>

FullService ==
    [uptimes |-> Uptimes, deltas |-> PointDeltas, totals |-> ProfilePoints, lists |-> IpLists,
     faults |-> Faults, failures |-> Failures]
\* A service that reports no uptime and no points.
PlainService ==
    [uptimes |-> {0}, deltas |-> {0}, totals |-> {}, lists |-> IpLists,
     faults |-> Faults, failures |-> Failures]
\* A service whose active-IP lists hold at most one distinct address.
OneAddrLists ==
    {l \in SeqsUpTo(Addrs, MaxIps) : Cardinality({l[i] : i \in 1..Len(l)}) <= 1}
OneAddrService ==
    [uptimes |-> {0}, deltas |-> {0}, totals |-> {}, lists |-> OneAddrLists,
     faults |-> Faults, failures |-> Failures]

\* The first cycle on its own, with or without a file log, on a disk that
\* may or may not refuse writes, against the full service.
Init == Constructed /\ Environment({LateTick}, BOOLEAN, BOOLEAN, FullService)
Spec == Init /\ [][Next]_vars

\* Overlapping cycles: any cron phase, a reliable disk, no file log, a plain
\* service.
InitOverlap == Constructed /\ Environment({<<>>}, {FALSE}, {FALSE}, PlainService)
SpecOverlap == InitOverlap /\ [][Next]_vars

\* The first cycle against a service with at most one distinct address.
InitOneAddr == Constructed /\ Environment({LateTick}, BOOLEAN, {FALSE}, OneAddrService)
SpecOneAddr == InitOneAddr /\ [][Next]_vars

\* The whole process from startWithRetry on: any configuration, any content
\* of stats.json, with or without a file log, a reliable disk, a plain service.
InitStartup ==
    /\ Booted
    /\ nextTick = LateTick
    /\ logToFile \in BOOLEAN
    /\ diskFails = FALSE
    /\ service = PlainService
    /\ config \in Configs
SpecStartup == InitStartup /\ [][NextStartup]_vars

\* The first cycle against a service whose rejections are all rate-limit
\* signals, or all of the other sort.
RateLimitingService == [PlainService EXCEPT !.failures = {"ratelimit"}]
FailingService == [PlainService EXCEPT !.failures = {"transport"}]
InitFailures ==
    \E svc \in {RateLimitingService, FailingService} :
        Constructed /\ Environment({LateTick}, BOOLEAN, {FALSE}, svc)
SpecFailures == InitFailures /\ [][Next]_vars

\* Half a day of cycles against a service that answers every call, with a
\* list that offers an address other than the current one; no file log, a
\* reliable disk, the cron ticks on the multiples of the period.  No check-in
\* fails there, so the rotation of line 278 does not occur.
SteadyService ==
    [uptimes |-> {0}, deltas |-> {0}, totals |-> {}, lists |-> {<<"A", "B">>},
     faults |-> {}, failures |-> {}]
HalfDay == RotateAfterHours * UnitsPerHour
LongRun == CronPeriod + HalfDay + 1
NextSteady ==
    \/ Start
    \/ CronTick
    \/ TickUntil(LongRun)
    \/ \E c \in Cycles :
         \/ AcquireEnter(c)
         \/ WakeQuota(c)
         \/ WakeInterval(c)
         \/ StatusDone(c)
         \/ MaintainIps(c)
         \/ RotateThenCheckIn(c)
         \/ CheckInDone(c)
         \/ ProfileDone(c)
         \/ CycleEnd(c)
InitSteady == Constructed /\ Environment({<<CronPeriod>>}, {FALSE}, {FALSE}, SteadyService)
SpecSteady == InitSteady /\ [][NextSteady]_vars

\* ------------------------------------------------------------- properties
\* C1: any two values written to rateLimiter.lastRequest are at least
\* minInterval (30 seconds) apart, also when the calls of waitForRateLimit
\* come from two cycles in progress at once.
MinimumSpacing ==
    \A i, j \in 1..Len(recorded) :
        i < j => recorded[j] - recorded[i] >= minInterval

\* C2: no window of 60 seconds holds more than requestsPerMinute recorded
\* requests: a request and the requestsPerMinute-th one after it are at least
\* a minute apart.
PerMinuteQuota ==
    \A i, j \in 1..Len(recorded) :
        j - i >= requestsPerMinute => recorded[j] - recorded[i] >= Window

\* checkIn of cycle c has just returned: the cycle is about to call
\* getUserProfile (343).
CheckInReturned(c) == running = {c} /\ pc[c] = "acquire" /\ op[c] = "profile"

\* C3: at every return of checkIn, totalCheckins = successfulCheckins +
\* failedCheckins, when the equality held as that checkIn began.
BalancedAfterCheckIn ==
    \A c \in Cycles :
        CheckInReturned(c) /\ eqAtStart[c] => StatsBalanced(stats)

\* C4: at most one cycle of monitorAndMaintain is in progress at any time.
InProgress == {c \in Cycles : pc[c] # "idle"}
SingleFlight == Cardinality(InProgress) <= 1

\* C5: every record saveStats wrote to stats.json has totalCheckins =
\* successfulCheckins + failedCheckins.
PersistedBalanced == statsFile # <<>> => StatsBalanced(statsFile[1])

\* C6: a rotation never selects the current address: a step that counts a
\* rotation leaves config.ipAddress different from what it was.
RotationLeavesCurrent ==
    [][stats'.ipRotations # stats.ipRotations => ipAddress' # ipAddress]_vars

\* A rotation has been made.
Rotated == stats.ipRotations > 0

\* C7: while every active-IP list the service sends holds at most one
\* distinct address, no step changes config.ipAddress or ipRotations.
NoRotationOnOneAddr ==
    [][service.lists \subseteq OneAddrLists
          => ipAddress' = ipAddress /\ stats'.ipRotations = stats.ipRotations]_vars

\* The steps of a cycle, in the order of monitorAndMaintain.
CycleSteps == <<"FETCH_STATUS", "MAINTAIN_IP", "CHECK_IN", "SYNC_PROFILE", "PERSIST">>

\* C8: a cycle that is over has run its five steps, in the fixed order,
\* whatever failed in an earlier step.
StepsInOrder ==
    \A c \in Cycles : pc[c] = "m_end" => trace[c] = CycleSteps

\* C9: a cycle that is over ended with the saveStats of line 348 (PERSIST).
EndsWithPersist ==
    \A c \in Cycles :
        pc[c] = "m_end" => trace[c] # <<>> /\ trace[c][Len(trace[c])] = "PERSIST"

\* C10: when the profile of a cycle carries a point total P, zero included,
\* the totalPoints the cycle wrote to stats.json at its end is P.
ProfileTotalPersisted ==
    \A c \in Cycles :
        /\ pc[c] = "m_end"
        /\ val[c].profile.kind = "profile"
        /\ val[c].profile.totalPoints # <<>>
        /\ val[c].save = "written"
        => statsFile[1].totalPoints = val[c].profile.totalPoints[1]

\* Cycle c leaves the HTTP call it was suspended in: its request is answered.
Answered(c) == pc[c] = "http" /\ pc'[c] # "http"

\* The step counts one failed check-in and no successful one.
FailureCounted ==
    /\ stats'.failedCheckins = stats.failedCheckins + 1
    /\ stats'.successfulCheckins = stats.successfulCheckins

\* C11: checkIn begins a rotation only after a rate-limit failure of its
\* request, having counted one failed check-in; after such a failure it does
\* not return without a rotation attempt, and after one rotation attempt it
\* returns (or throws) without another and without counting again.
RotationOnRateLimit ==
    [][\A c \in Cycles :
         /\ Answered(c) /\ op[c] = "checkin" /\ ctx'[c] = "rot_c"
            => FailureCounted /\ service.failures = {"ratelimit"}
         /\ Answered(c) /\ op[c] = "checkin" /\ op'[c] = "profile" /\ FailureCounted
            => service.failures # {"ratelimit"}
         /\ Answered(c) /\ ctx[c] = "rot_c"
            => /\ pc'[c] = "m_end" \/ op'[c] = "profile"
               /\ stats'.failedCheckins = stats.failedCheckins]_vars

\* C12: loadStats never raises: with stats.json missing or unparsable the
\* constructor goes on, with the default record as the stats.
LoadsDefault ==
    [][phase = "loading" /\ statsFile \in {<<>>, <<Corrupt>>}
          => phase' = "constructed" /\ stats' = DefaultStats]_vars

\* C13: while a request is in flight, the configured token and device id
\* are non-empty.
CredentialsPresent ==
    \A c \in Cycles :
        pc[c] = "http" => config.authToken # "" /\ config.deviceId # ""

\* Cycle c is past the getActiveIps of line 329 and goes on to its next call.
IpsFetched(c) ==
    /\ op[c] = "ips" /\ ctx[c] = "monitor"
    /\ pc[c] \in {"http", "ips_ret"} /\ pc'[c] = "acquire"

PersistedRotations ==
    \A c \in Cycles :
        CheckInReturned(c) =>
            /\ statsFile # <<>> /\ statsFile # <<Corrupt>>
            /\ statsFile[1].ipRotations = stats.ipRotations

\* C18: the process exits with failure status only after the last of
\* maxRetries startup attempts.
ExitAfterLastAttempt == phase = "exited" => attempts = maxRetries

\* C16: a call of waitForRateLimit never raises: it records its request at
\* once or suspends for a wait that is not negative and not longer than the
\* window and the minimum interval together.
AcquireNeverDrops ==
    [][\A c \in Cycles :
         pc[c] = "acquire" /\ pc'[c] # "acquire"
         => /\ pc'[c] \in Suspended
            /\ wake'[c] >= now
            /\ wake'[c] <= now + Window + minInterval]_vars

\* C19: the window counter of the rate limiter stays between 0 and
\* requestsPerMinute.
CountWithinQuota ==
    rateLimiter.requestCount >= 0 /\ rateLimiter.requestCount <= requestsPerMinute

\* C20: a step that counts a failed check-in leaves successfulCheckins,
\* lastCheckin and totalPoints as they were.
FailureFrame ==
    [][stats'.failedCheckins # stats.failedCheckins
          => /\ stats'.successfulCheckins = stats.successfulCheckins
             /\ stats'.lastCheckin = stats.lastCheckin
             /\ stats'.totalPoints = stats.totalPoints]_vars

\* C15: the IP is rotated every 12 hours.  The first cycle makes the first
\* rotation before the first cron tick, so the 12 hours that follow that tick
\* hold a second one.
RotatedEveryHalfDay == now > CronPeriod + HalfDay => stats.ipRotations > 1

====
